---- MODULE Spec2Model ----
(***************************************************************************)
(* Model of the wasmboy core's graphics and sound update handlers          *)
(* (src/wasm/sound/sound.ts): updateGraphics with _drawScanline, and       *)
(* updateSound with the frame sequencer and the downsampler.               *)
(*                                                                         *)
(* Every handler is one action.  The calls a handler makes into modules    *)
(* that are not part of these sources (renderBackground, updateLength,     *)
(* storeFrameToBeRendered, ...) are recorded, in call order, in the        *)
(* variables gfxCalls and soundClocks / soundWrite, which hold the calls   *)
(* of the most recent handler invocation.                                  *)
(***************************************************************************)
EXTENDS Integers, Sequences, FiniteSets, TLC

VARIABLES
    \* ---- Graphics (class Graphics, and the registers it reads) ----
    scanlineCycleCounter,   \* Graphics.scanlineCycleCounter : i32
    currentLcdMode,         \* Graphics.currentLcdMode : u8
    LY,                     \* memory byte 0xFF44 (scanline register)
    lcdControl,             \* memory byte 0xFF40 (LCDC)
    \* ---- Graphics, observation of the handler's calls ----
    gfxCalls,               \* calls made by the last updateGraphics, in order
    gfxCycles,              \* cycles passed to updateGraphics while enabled
    scanlinesDone,          \* number of times LY was stored by updateGraphics
    lineLog,                \* _drawScanline calls since LY last wrapped to 0
    passFrames,             \* storeFrameToBeRendered calls since the last wrap
    passVBlanks,            \* requestVBlankInterrupt calls since the last wrap
    passes,                 \* number of wraps of LY to 0
    lastPassFrames,         \* passFrames at the last wrap
    lastPassVBlanks,        \* passVBlanks at the last wrap
    frames,                 \* storeFrameToBeRendered calls so far
    lastFrameAt,            \* scanline boundary (in cycles) of the last emission
    frameGap,               \* cycles between the last two emissions, 0 if < 2
    \* ---- Sound (class Sound, and the registers it reads) ----
    frameSequenceCycleCounter,  \* Sound.frameSequenceCycleCounter : i32
    downSampleCycleCounter,     \* Sound.downSampleCycleCounter : u8
    frameSequencer,             \* Sound.frameSequencer : u8
    audioQueueIndex,            \* Sound.audioQueueIndex : i32
    registerNR50,               \* memory byte 0xFF24
    registerNR51,               \* memory byte 0xFF25
    \* ---- Sound, observation of the handler's calls ----
    soundClocks,            \* channel clocks called by the last updateSound
    soundWrite,             \* audio queue write of the last updateSound, or <<>>
    soundCycles,            \* cycles passed to updateSound so far
    sequencerAdvances,      \* number of frame sequencer advances so far
    samplesEmitted,         \* number of stereo samples written so far
    channelSamples,         \* the channels' getSample results of the last updateSound
    \* ---- Save states ----
    saveStateMemory,        \* the save state bytes written so far, by address
    soundSaved,             \* the Sound fields at the last Sound.saveState, or <<>>
    graphicsSaved,          \* the Graphics fields at the last Graphics.saveState, or <<>>
    \* ---- The wasm memory map (src/core/constants.ts) ----
    memoryAddress,          \* the address of the last access to wasm memory
    \* ---- getImageDataFromGraphicsFrameBuffer (graphics.worker.js) ----
    frameNumber,            \* the number of the frame buffer converted last
    imageLength,            \* the length of the array the conversion returned
    imagePixel,             \* a pixel (y * 160 + x) of the returned array
    imageBytes,             \* the four bytes of the returned array at imagePixel
    \* ---- The graphics worker (graphics.worker.js) ----
    libWorkerPort,          \* the port of the last CONNECT, or Undefined
    portOnMessage,          \* the ports libMessageHandler is attached to
    idCounter,              \* the counter of generateId
    workerTerminated,       \* an uncaught error has ended the worker (Node)
    handled,                \* the event of the last handler invocation
    mainSent,               \* every message the main thread has posted
    mainHandled,            \* how many of them messageHandler was invoked for
    libSent,                \* every message the lib worker posted on a port
    libDelivered,           \* their indices, as libMessageHandler got them
    workerToLib,            \* every message the worker posted on a lib port
    libHandled,             \* the indices of those the lib worker answered
    workerToMain,           \* every message the worker posted to main
    \* ---- The operation that made the last step ----
    lastOp

gfxVars == <<scanlineCycleCounter, currentLcdMode, LY, lcdControl, gfxCalls,
             gfxCycles, scanlinesDone, lineLog, passFrames, passVBlanks,
             passes, lastPassFrames, lastPassVBlanks, frames, lastFrameAt,
             frameGap>>

soundVars == <<frameSequenceCycleCounter, downSampleCycleCounter,
               frameSequencer, audioQueueIndex, registerNR50, registerNR51,
               soundClocks, soundWrite, soundCycles, sequencerAdvances,
               samplesEmitted, channelSamples>>

saveVars == <<saveStateMemory, soundSaved, graphicsSaved>>

mapVars == <<memoryAddress>>

\* The state outside the wasm core's graphics and sound classes.
imageVars == <<frameNumber, imageLength, imagePixel, imageBytes>>

workerVars == <<libWorkerPort, portOnMessage, idCounter, workerTerminated,
                handled, mainSent, mainHandled, libSent, libDelivered,
                workerToLib, libHandled, workerToMain>>

hostVars == <<mapVars, imageVars, workerVars>>

vars == <<gfxVars, soundVars, saveVars, hostVars, lastOp>>

-----------------------------------------------------------------------------
(* Bounds of the model *)

\* Cycles passed to updateGraphics in one behaviour: a little over two
\* passes of LY through its range, so that two frame emissions and two wraps
\* of LY happen.
MaxGfxCycles == 142000

\* numberOfCycles is a u8; the values tried.
CycleInputs == {0, 3, 24, 255}

\* Cycles passed to updateSound in one behaviour of SpecSound, where every
\* u8 value of numberOfCycles is tried: some samples are emitted and the u8
\* downsample counter is driven over its whole range.
MaxSoundCycles == 600

\* Cycles passed to updateSound in one behaviour of SpecSequencer: a little
\* over eight frame sequencer periods, so that the index passes 7 and wraps.
MaxSequencerCycles == 66000

\* The values of numberOfCycles tried in SpecSequencer.
SequencerCycleInputs == {0, 87, 255}

\* The four channel samples (each 0..30) tried for a call of updateSound.
SampleInputs == {<<30, 30, 30, 30>>, <<0, 15, 30, 7>>}

\* Cycles passed to updateSound in one behaviour of SpecAudioQueue, counted
\* from the behaviour's initial state: enough samples for the write index to
\* reach its wrap from AudioQueueNearWrapSamples.
MaxAudioQueueCycles == 900

\* A start of SpecAudioQueue: this many calls of updateSound(87) were made.
AudioQueueNearWrapSamples == 32760

\* Cycles passed to updateSound in one behaviour of SpecAudioQueueFill: a
\* little over 4097 samples of 87 cycles.
MaxAudioQueueFillCycles == 357000

\* The values of numberOfCycles tried in SpecAudioQueueFill.
AudioQueueFillCycleInputs == {0, 29, 87}

\* Cycles passed to updateSound in one behaviour of SpecMixer: two samples.
MaxMixerCycles == 174

\* Values the program writes to NR50 in SpecMixer: bits 6-4 are the left
\* volume, bits 2-0 the right volume, bits 7 and 3 the Vin enables.
NR50Inputs == {0, 7, 18, 53, 112, 119, 136, 255}

\* Values the program writes to NR51 in SpecMixer: bits 7-4 enable channels
\* 4..1 on the left output, bits 3-0 on the right output.
NR51Inputs == {0, 1, 2, 4, 8, 16, 32, 64, 128, 15, 240, 243, 51, 90, 165, 255}

\* Channel samples tried in SpecMixer, each in 0..30.
MixerSampleInputs ==
    {<<30, 30, 30, 30>>, <<0, 15, 30, 7>>, <<0, 0, 0, 0>>, <<1, 2, 4, 8>>,
     <<30, 0, 0, 0>>, <<29, 30, 1, 13>>}

\* A start of SpecSaveState: this many calls of updateSound(87) were made,
\* which leaves the frame sequence counter close to 8192.
SaveStateStartSamples == 93

\* Cycles passed to updateSound, and to updateGraphics, in one behaviour of
\* SpecSaveState after its start.
MaxSaveStateSoundCycles == 520
MaxSaveStateGfxCycles == 520

\* Cycles passed to updateGraphics while the LCD is enabled in one behaviour
\* of SpecLayers: three scanlines.
MaxLayersCycles == 1400

\* Values the program writes to LCDC (0xFF40) in SpecLayers: bit 7 enables
\* the LCD, bits 0, 5 and 1 the background, the window and the sprites.
LcdControlWriteInputs ==
    {0, 17, 127, 128, 129, 130, 134, 135, 137, 145, 147, 153, 160, 161, 163, 179,
     224, 231, 255}

\* Frame buffers converted in one behaviour of SpecImageData.
MaxFrameNumber == 15

\* The pixels (y * 160 + x) of a converted frame that a step reads back:
\* the ends of the first two rows, the middle and the last pixel.
ImagePixelInputs == {0, 1, 159, 160, 319, 11600, 22880, 23039}

\* Messages of one behaviour of SpecWorker: CONNECT messages (each carries
\* a port of its own) and GET_CONSTANTS requests of the main thread.
MaxPorts == 2

MaxGetConstants == 3

\* Messages of one behaviour of SpecWorkerFrames: CONNECT messages of the
\* main thread, frames of the lib worker, and messages of either of a type
\* the worker has no case for.
MaxFramePorts == 1

MaxUpdated == 2

MaxOtherMessages == 1

\* LCDC values the graphics behaviours start from (bit 7, LCD enable, set).
LcdControlInputs == {145}

-----------------------------------------------------------------------------
(* Helpers of ../helpers/index and ./lcd *)

checkBitOnByte(bitPosition, byte) == (byte \div (2 ^ bitPosition)) % 2 = 1

isLcdEnabled == checkBitOnByte(7, lcdControl)

\* LCD mode for the position in the scanline.
setLcdStatus(enabled, ly, counter) ==
    IF ~enabled THEN currentLcdMode
    ELSE IF ly >= 144 THEN 1
    ELSE IF counter < 80 THEN 2
    ELSE IF counter < 252 THEN 3
    ELSE 0

-----------------------------------------------------------------------------
(* The wasm memory map (src/core/constants.ts) *)

\* The quotient of two i32 values: the division truncates.
i32Div(a, b) == a \div b

\* ceil of an i32: an integer is its own ceiling.
ceil(value) == value

ASSEMBLYSCRIPT_MEMORY_LOCATION == 0
ASSEMBLYSCRIPT_MEMORY_SIZE == 1024
WASMBOY_STATE_LOCATION ==
    ASSEMBLYSCRIPT_MEMORY_LOCATION + ASSEMBLYSCRIPT_MEMORY_SIZE
WASMBOY_STATE_SIZE == 1024
VIDEO_RAM_LOCATION == WASMBOY_STATE_LOCATION + WASMBOY_STATE_SIZE
VIDEO_RAM_SIZE == 16384
WORK_RAM_LOCATION == VIDEO_RAM_LOCATION + VIDEO_RAM_SIZE
WORK_RAM_SIZE == 32768
OTHER_GAMEBOY_INTERNAL_MEMORY_LOCATION == WORK_RAM_LOCATION + WORK_RAM_SIZE
OTHER_GAMEBOY_INTERNAL_MEMORY_SIZE == 16384
GAMEBOY_INTERNAL_MEMORY_LOCATION == VIDEO_RAM_LOCATION
GAMEBOY_INTERNAL_MEMORY_SIZE ==
    OTHER_GAMEBOY_INTERNAL_MEMORY_LOCATION - VIDEO_RAM_LOCATION + OTHER_GAMEBOY_INTERNAL_MEMORY_SIZE
GBC_PALETTE_LOCATION ==
    OTHER_GAMEBOY_INTERNAL_MEMORY_LOCATION + OTHER_GAMEBOY_INTERNAL_MEMORY_SIZE
GBC_PALETTE_SIZE == 512
BG_PRIORITY_MAP_LOCATION == GBC_PALETTE_LOCATION + GBC_PALETTE_SIZE
BG_PRIORITY_MAP_SIZE == 23552
FRAME_LOCATION == BG_PRIORITY_MAP_LOCATION + BG_PRIORITY_MAP_SIZE
FRAME_SIZE == 93184
BACKGROUND_MAP_LOCATION == FRAME_LOCATION + FRAME_SIZE
BACKGROUND_MAP_SIZE == 196608
TILE_DATA_LOCATION == BACKGROUND_MAP_LOCATION + BACKGROUND_MAP_SIZE
TILE_DATA_SIZE == 147456
OAM_TILES_LOCATION == TILE_DATA_LOCATION + TILE_DATA_SIZE
OAM_TILES_SIZE == 15360
GRAPHICS_OUTPUT_LOCATION == GBC_PALETTE_LOCATION
GRAPHICS_OUTPUT_SIZE ==
    OAM_TILES_LOCATION - GBC_PALETTE_LOCATION + OAM_TILES_SIZE
AUDIO_BUFFER_LOCATION == OAM_TILES_LOCATION + OAM_TILES_SIZE
AUDIO_BUFFER_SIZE == 131072
CARTRIDGE_RAM_LOCATION == AUDIO_BUFFER_LOCATION + AUDIO_BUFFER_SIZE
CARTRIDGE_RAM_SIZE == 131072
CARTRIDGE_ROM_LOCATION == CARTRIDGE_RAM_LOCATION + CARTRIDGE_RAM_SIZE
CARTRIDGE_ROM_SIZE == 8258560
DEBUG_GAMEBOY_MEMORY_LOCATION == CARTRIDGE_ROM_LOCATION + CARTRIDGE_ROM_SIZE
DEBUG_GAMEBOY_MEMORY_SIZE == 65535
WASMBOY_MEMORY_LOCATION == 0
WASMBOY_MEMORY_SIZE ==
    DEBUG_GAMEBOY_MEMORY_LOCATION + DEBUG_GAMEBOY_MEMORY_SIZE
WASMBOY_WASM_PAGES == ceil(i32Div(i32Div(WASMBOY_MEMORY_SIZE, 1024), 64))

\* The regions of the memory map in order, each with its location and size.
MemoryRegions ==
    <<[location |-> ASSEMBLYSCRIPT_MEMORY_LOCATION, size |-> ASSEMBLYSCRIPT_MEMORY_SIZE],
      [location |-> WASMBOY_STATE_LOCATION, size |-> WASMBOY_STATE_SIZE],
      [location |-> VIDEO_RAM_LOCATION, size |-> VIDEO_RAM_SIZE],
      [location |-> WORK_RAM_LOCATION, size |-> WORK_RAM_SIZE],
      [location |-> OTHER_GAMEBOY_INTERNAL_MEMORY_LOCATION,
       size |-> OTHER_GAMEBOY_INTERNAL_MEMORY_SIZE],
      [location |-> GBC_PALETTE_LOCATION, size |-> GBC_PALETTE_SIZE],
      [location |-> BG_PRIORITY_MAP_LOCATION, size |-> BG_PRIORITY_MAP_SIZE],
      [location |-> FRAME_LOCATION, size |-> FRAME_SIZE],
      [location |-> BACKGROUND_MAP_LOCATION, size |-> BACKGROUND_MAP_SIZE],
      [location |-> TILE_DATA_LOCATION, size |-> TILE_DATA_SIZE],
      [location |-> OAM_TILES_LOCATION, size |-> OAM_TILES_SIZE],
      [location |-> AUDIO_BUFFER_LOCATION, size |-> AUDIO_BUFFER_SIZE],
      [location |-> CARTRIDGE_RAM_LOCATION, size |-> CARTRIDGE_RAM_SIZE],
      [location |-> CARTRIDGE_ROM_LOCATION, size |-> CARTRIDGE_ROM_SIZE],
      [location |-> DEBUG_GAMEBOY_MEMORY_LOCATION, size |-> DEBUG_GAMEBOY_MEMORY_SIZE]>>

-----------------------------------------------------------------------------
(* The graphics worker's image conversion (graphics.worker.js) *)

GAMEBOY_CAMERA_WIDTH == 160
GAMEBOY_CAMERA_HEIGHT == 144

\* Line 127
imageDataArrayLengthMutRgb == GAMEBOY_CAMERA_HEIGHT * GAMEBOY_CAMERA_WIDTH * 3

\* Line 127: the length of the Uint8ClampedArray the conversion allocates.
imageDataArrayLength == GAMEBOY_CAMERA_HEIGHT * GAMEBOY_CAMERA_WIDTH * 4

\* Lines 130-131
stride1(y) == y * (GAMEBOY_CAMERA_WIDTH * 3)
stride2(y) == y * (GAMEBOY_CAMERA_WIDTH * 4)

\* Line 135
pixelStartMutMirrorsRow(y, x) == stride1(y) + (GAMEBOY_CAMERA_WIDTH - 1 - x) * 3

pixelStart(y, x) == stride1(y) + x * 3

\* Line 136: stride2 + (x << 2)
imageDataIndex(y, x) == stride2(y) + x * 4

\* wasmByteMemory[index], a byte of the Uint8ClampedArray; every index the
\* loops read is inside a frame buffer of 160 x 144 x 3 bytes.
readByte(array, index) == array[index]

\* getImageDataFromGraphicsFrameBuffer(wasmByteMemory): arrays are functions
\* on 0..length-1.  The loops write index imageDataIndex(y, x) + c once, for
\* y < 144, x < 160 and c in 0..3; index k is written in iteration
\* y = k div 640, x = (k mod 640) div 4.
getImageDataFromGraphicsFrameBuffer(memory) ==
    [k \in 0..(imageDataArrayLength - 1) |->
        LET y == k \div (GAMEBOY_CAMERA_WIDTH * 4)
            x == (k % (GAMEBOY_CAMERA_WIDTH * 4)) \div 4
            c == k - imageDataIndex(y, x)
        IN  IF c = 3 THEN 255 ELSE readByte(memory, pixelStart(y, x) + c)]

\* The RGB frame buffer number n of 160 x 144 x 3 bytes that the lib worker
\* sends: bytes that differ from pixel to pixel and from frame to frame.
FrameBuffer(n) ==
    [i \in 0..(GAMEBOY_CAMERA_HEIGHT * GAMEBOY_CAMERA_WIDTH * 3 - 1) |->
        (i * (2 * n + 1) + 7 * n) % 256]

-----------------------------------------------------------------------------
(* The graphics worker's messages (graphics.worker.js) *)

\* The value undefined.
Undefined == [type |-> "undefined"]

\* Lines 87-112
WORKER_MESSAGE_TYPE ==
    [CONNECT |-> "CONNECT",
     INSTANTIATE_WASM |-> "INSTANTIATE_WASM",
     CLEAR_MEMORY |-> "CLEAR_MEMORY",
     CLEAR_MEMORY_DONE |-> "CLEAR_MEMORY_DONE",
     GET_MEMORY |-> "GET_MEMORY",
     SET_MEMORY |-> "SET_MEMORY",
     SET_MEMORY_DONE |-> "SET_MEMORY_DONE",
     GET_CONSTANTS |-> "GET_CONSTANTS",
     GET_CONSTANTS_DONE |-> "GET_CONSTANTS_DONE",
     CONFIG |-> "CONFIG",
     RESET_AUDIO_QUEUE |-> "RESET_AUDIO_QUEUE",
     PLAY |-> "PLAY",
     BREAKPOINT |-> "BREAKPOINT",
     PAUSE |-> "PAUSE",
     UPDATED |-> "UPDATED",
     CRASHED |-> "CRASHED",
     SET_JOYPAD_STATE |-> "SET_JOYPAD_STATE",
     AUDIO_LATENCY |-> "AUDIO_LATENCY",
     RUN_WASM_EXPORT |-> "RUN_WASM_EXPORT",
     GET_WASM_MEMORY_SECTION |-> "GET_WASM_MEMORY_SECTION",
     GET_WASM_CONSTANT |-> "GET_WASM_CONSTANT",
     FORCE_OUTPUT_FRAME |-> "FORCE_OUTPUT_FRAME",
     SET_SPEED |-> "SET_SPEED",
     IS_GBC |-> "IS_GBC"]

\* Types of the messages the main thread posts besides CONNECT and
\* GET_CONSTANTS, and of those the lib worker posts besides UPDATED and
\* GET_CONSTANTS_DONE.
OtherMainTypes == {WORKER_MESSAGE_TYPE.PLAY, WORKER_MESSAGE_TYPE.UPDATED}

OtherLibTypes == {WORKER_MESSAGE_TYPE.CRASHED, WORKER_MESSAGE_TYPE.GET_CONSTANTS}

\* The messages sent so far of a type the worker has no case for.
OtherMessages ==
    Cardinality({i \in 1..Len(mainSent) :
                     mainSent[i].message.type \in OtherMainTypes})
    + Cardinality({i \in 1..Len(libSent) :
                       libSent[i].message.type \in OtherLibTypes})

\* Lines 63-73: the id `${randomId}-${idCounter}` and the counter after the
\* call; the random part of an id of this worker is written "graphics".
generateId ==
    [id |-> [randomId |-> "graphics", idCounter |-> idCounter + 1],
     idCounter |-> IF idCounter + 1 > 100000 THEN 0 ELSE idCounter + 1]

\* Lines 75-85
getSmartWorkerMessageMutFreshId(message, messageId, workerId) ==
    [workerId |-> workerId,
     messageId |-> generateId.id,
     message |-> message]

\* Lines 75-85
getSmartWorkerMessage(message, messageId, workerId) ==
    [workerId |-> workerId,
     messageId |-> IF messageId = Undefined THEN generateId.id ELSE messageId,
     message |-> message]

\* Lines 76-78: idCounter after getSmartWorkerMessage(_, messageId).
idCounterAfter(messageId) ==
    IF messageId = Undefined THEN generateId.idCounter ELSE idCounter

\* The number of messages of a type in a sequence of messages.
CountType(messages, type) ==
    Cardinality({i \in 1..Len(messages) : messages[i].message.type = type})

\* The ids of the main thread's messages (also produced by a generateId).
mainMessageId(n) == [randomId |-> "main", idCounter |-> n]

libMessageId(n) == [randomId |-> "lib", idCounter |-> n]

\* The worker's end of the n-th channel to the lib worker.
MessagePort(n) == [port |-> n]

\* The channels the main thread has made so far.
SentPorts ==
    {MessagePort(n) : n \in 1..CountType(mainSent, WORKER_MESSAGE_TYPE.CONNECT)}

-----------------------------------------------------------------------------
(* Save state memory *)

\* The bytes of one save state slot (WASMBOY_STATE_SIZE 0x400 holds 20).
SaveStateSlotSize == 50

\* getSaveStateMemoryOffset(offset, saveStateSlot), from the start of the
\* save state region.
getSaveStateMemoryOffset(offset, saveStateSlot) ==
    offset + SaveStateSlotSize * saveStateSlot

SoundSaveStateSlot == 6
GraphicsSaveStateSlot == 1

\* load<u8>(address); memory never written reads 0.
loadU8(memory, address) ==
    IF address \in DOMAIN memory THEN memory[address] ELSE 0

\* load<i32>(address): four little-endian bytes, two's complement.
loadI32(memory, address) ==
    LET b(k) == loadU8(memory, address + k)
        high == IF b(3) >= 128 THEN b(3) - 256 ELSE b(3)
    IN  b(0) + 256 * b(1) + 65536 * b(2) + 16777216 * high

\* store<u8>(address, value)
storeU8(memory, address, value) ==
    [a \in DOMAIN memory \cup {address} |->
        IF a = address THEN value % 256 ELSE memory[a]]

\* store<i32>(address, value): four little-endian bytes.
storeI32MutOneByte(memory, address, value) ==
    [a \in DOMAIN memory \cup {address} |->
        IF a = address THEN value % 256 ELSE memory[a]]

storeI32(memory, address, value) ==
    [a \in DOMAIN memory \cup (address..(address + 3)) |->
        IF a \in address..(address + 3)
        THEN (value \div (256 ^ (a - address))) % 256
        ELSE memory[a]]

-----------------------------------------------------------------------------
(* Graphics *)

MAX_CYCLES_PER_SCANLINE == 456

memoryLocationTileMapSelectZeroStart == 38912
memoryLocationTileMapSelectOneStart == 39936
memoryLocationTileDataSelectZeroStart == 34816
memoryLocationTileDataSelectOneStart == 32768

\* One call made by a handler: the callee, its scanline argument, two more
\* arguments (0 where the callee takes none), and the LY register as memory
\* holds it when the call is made.
Call(name, line, a, b, ly) ==
    [call |-> name, line |-> line, a |-> a, b |-> b, ly |-> ly]

\* _drawScanline(scanlineRegister): the render calls, in order.
_drawScanlineMutSpritesBeforeWindow(scanlineRegister, lcdc, ly) ==
    LET tileData == IF checkBitOnByte(4, lcdc)
                    THEN memoryLocationTileDataSelectOneStart
                    ELSE memoryLocationTileDataSelectZeroStart
        bgMap == IF checkBitOnByte(3, lcdc)
                 THEN memoryLocationTileMapSelectOneStart
                 ELSE memoryLocationTileMapSelectZeroStart
        winMap == IF checkBitOnByte(6, lcdc)
                  THEN memoryLocationTileMapSelectOneStart
                  ELSE memoryLocationTileMapSelectZeroStart
        bg == IF checkBitOnByte(0, lcdc)
              THEN <<Call("renderBackground", scanlineRegister, tileData, bgMap, ly)>>
              ELSE <<>>
        win == IF checkBitOnByte(5, lcdc)
               THEN <<Call("renderWindow", scanlineRegister, tileData, winMap, ly)>>
               ELSE <<>>
        spr == IF checkBitOnByte(1, lcdc)
               THEN <<Call("renderSprites", scanlineRegister,
                           IF checkBitOnByte(2, lcdc) THEN 1 ELSE 0, 0, ly)>>
               ELSE <<>>
    IN  <<Call("_drawScanline", scanlineRegister, 0, 0, ly)>> \o bg \o spr \o win

_drawScanline(scanlineRegister, lcdc, ly) ==
    LET tileData == IF checkBitOnByte(4, lcdc)
                    THEN memoryLocationTileDataSelectOneStart
                    ELSE memoryLocationTileDataSelectZeroStart
        bgMap == IF checkBitOnByte(3, lcdc)
                 THEN memoryLocationTileMapSelectOneStart
                 ELSE memoryLocationTileMapSelectZeroStart
        winMap == IF checkBitOnByte(6, lcdc)
                  THEN memoryLocationTileMapSelectOneStart
                  ELSE memoryLocationTileMapSelectZeroStart
        bg == IF checkBitOnByte(0, lcdc)
              THEN <<Call("renderBackground", scanlineRegister, tileData, bgMap, ly)>>
              ELSE <<>>
        win == IF checkBitOnByte(5, lcdc)
               THEN <<Call("renderWindow", scanlineRegister, tileData, winMap, ly)>>
               ELSE <<>>
        spr == IF checkBitOnByte(1, lcdc)
               THEN <<Call("renderSprites", scanlineRegister,
                           IF checkBitOnByte(2, lcdc) THEN 1 ELSE 0, 0, ly)>>
               ELSE <<>>
    IN  <<Call("_drawScanline", scanlineRegister, 0, 0, ly)>> \o bg \o win \o spr

\* Line 421: the scanline on which the frame is stored and V-Blank requested.
IsFrameScanlineMutEveryVBlankLine(scanlineRegister) == scanlineRegister >= 144

IsFrameScanline(scanlineRegister) == scanlineRegister = 144

\* Line 428: the scanlines drawn by the else branch.
IsDrawnScanlineMutSkipsLast(scanlineRegister) == scanlineRegister < 143

IsDrawnScanline(scanlineRegister) == scanlineRegister < 144

\* Lines 420-431: the calls made for the scanline that just ended.
ScanlineCalls(scanlineRegister, lcdc, ly) ==
    IF IsFrameScanline(scanlineRegister)
    THEN _drawScanline(scanlineRegister, lcdc, ly)
         \o <<Call("storeFrameToBeRendered", 0, 0, 0, ly),
              Call("requestVBlankInterrupt", 0, 0, 0, ly)>>
    ELSE IF IsDrawnScanline(scanlineRegister)
    THEN _drawScanline(scanlineRegister, lcdc, ly)
    ELSE <<>>

\* Lines 433-440: the scanline register that is stored back (a u8).
NextScanlineRegister(scanlineRegister) ==
    IF scanlineRegister > 153 THEN 0 ELSE (scanlineRegister + 1) % 256

CallsNamed(calls, name) == SelectSeq(calls, LAMBDA c : c.call = name)

DrawLog(calls) ==
    [i \in 1..Len(CallsNamed(calls, "_drawScanline")) |->
        [line |-> CallsNamed(calls, "_drawScanline")[i].line,
         ly |-> CallsNamed(calls, "_drawScanline")[i].ly]]

\* Line 407: whether the body of updateGraphics runs.
GraphicsRunsMutAlways(lcdEnabledStatus) == TRUE

GraphicsRuns(lcdEnabledStatus) == lcdEnabledStatus

\* Line 415: the cycles carried into the next scanline.
ScanlineCarryMutResets(counter) == 0

ScanlineCarry(counter) == counter - MAX_CYCLES_PER_SCANLINE

\* updateGraphics(numberOfCycles)
updateGraphics(numberOfCycles) ==
    LET lcdEnabledStatus == isLcdEnabled
        counter1 == scanlineCycleCounter + numberOfCycles
        ended == counter1 >= MAX_CYCLES_PER_SCANLINE
        counter2 == IF ended THEN ScanlineCarry(counter1) ELSE counter1
        scanlineRegister == LY
        calls == IF ended THEN ScanlineCalls(scanlineRegister, lcdControl, LY)
                 ELSE <<>>
        stored == NextScanlineRegister(scanlineRegister)
        nFrames == Len(CallsNamed(calls, "storeFrameToBeRendered"))
        nVBlanks == Len(CallsNamed(calls, "requestVBlankInterrupt"))
        wrapped == ended /\ stored = 0
        boundary == (gfxCycles + numberOfCycles) - counter2
    IN  /\ currentLcdMode' = setLcdStatus(lcdEnabledStatus, LY, scanlineCycleCounter)
        /\ lcdControl' = lcdControl
        /\ IF GraphicsRuns(lcdEnabledStatus)
           THEN /\ scanlineCycleCounter' = counter2
                /\ LY' = IF ended THEN stored ELSE LY
                /\ gfxCalls' = calls
                /\ gfxCycles' = gfxCycles + numberOfCycles
                /\ scanlinesDone' = scanlinesDone + (IF ended THEN 1 ELSE 0)
                /\ lineLog' = IF wrapped THEN <<>> ELSE lineLog \o DrawLog(calls)
                /\ passFrames' = IF wrapped THEN 0 ELSE passFrames + nFrames
                /\ passVBlanks' = IF wrapped THEN 0 ELSE passVBlanks + nVBlanks
                /\ passes' = passes + (IF wrapped THEN 1 ELSE 0)
                /\ lastPassFrames' = IF wrapped THEN passFrames + nFrames
                                     ELSE lastPassFrames
                /\ lastPassVBlanks' = IF wrapped THEN passVBlanks + nVBlanks
                                      ELSE lastPassVBlanks
                /\ frames' = frames + nFrames
                /\ lastFrameAt' = IF nFrames > 0 THEN boundary ELSE lastFrameAt
                /\ frameGap' = IF nFrames > 0 /\ frames > 0
                               THEN boundary - lastFrameAt ELSE frameGap
           ELSE /\ gfxCalls' = <<>>
                /\ UNCHANGED <<scanlineCycleCounter, LY, gfxCycles,
                               scanlinesDone, lineLog, passFrames, passVBlanks,
                               passes, lastPassFrames, lastPassVBlanks,
                               frames, lastFrameAt, frameGap>>

-----------------------------------------------------------------------------
(* Sound *)

maxFrameSequenceCycles == 8192
maxDownSampleCycles == 87

\* Lines 129-162: the channel clocks called for a frame sequencer index.
LengthClocks ==
    <<"Channel1.updateLength", "Channel2.updateLength",
      "Channel3.updateLength", "Channel4.updateLength">>

FrameSequencerClocksMutEnvelopeOnThree(index) ==
    IF index = 0 THEN LengthClocks
    ELSE IF index = 2 THEN LengthClocks \o <<"Channel1.updateSweep">>
    ELSE IF index = 3 THEN <<"Channel1.updateEnvelope", "Channel2.updateEnvelope",
                             "Channel4.updateEnvelope">>
    ELSE IF index = 4 THEN LengthClocks
    ELSE IF index = 6 THEN LengthClocks \o <<"Channel1.updateSweep">>
    ELSE <<>>

FrameSequencerClocks(index) ==
    IF index = 0 THEN LengthClocks
    ELSE IF index = 2 THEN LengthClocks \o <<"Channel1.updateSweep">>
    ELSE IF index = 4 THEN LengthClocks
    ELSE IF index = 6 THEN LengthClocks \o <<"Channel1.updateSweep">>
    ELSE IF index = 7 THEN <<"Channel1.updateEnvelope", "Channel2.updateEnvelope",
                             "Channel4.updateEnvelope">>
    ELSE <<>>

\* Lines 164-168: the frame sequencer after one advance (a u8).
NextFrameSequencer(index) ==
    IF (index + 1) % 256 >= 8 THEN 0 ELSE (index + 1) % 256

\* Channel k (1..4) on the left output: NR51 bit k+3; on the right: bit k-1.
isChannelEnabledOnLeftOutput(channelNumber) ==
    checkBitOnByte(channelNumber + 3, registerNR51)

isChannelEnabledOnRightOutput(channelNumber) ==
    checkBitOnByte(channelNumber - 1, registerNR51)

\* Line 288: adjustedSample, an i32.
adjustedSampleMutDivisor(sample) == (sample * 1000) \div 3700

adjustedSample(sample) == (sample * 1000) \div 3779

\* getSampleAsUnsignedByte(sample): i32 division, then the cast to u8.
getSampleAsUnsignedByte(sample) == adjustedSample(sample) % 256

\* Lines 202-254: the left and right bytes mixed from the channel samples.
MixedSampleMutLeftUsesRightVolume(samples) ==
    LET rightMixerVolume == registerNR50 % 8
        leftSum == (IF isChannelEnabledOnLeftOutput(1) THEN samples[1] ELSE 0)
                 + (IF isChannelEnabledOnLeftOutput(2) THEN samples[2] ELSE 0)
                 + (IF isChannelEnabledOnLeftOutput(3) THEN samples[3] ELSE 0)
                 + (IF isChannelEnabledOnLeftOutput(4) THEN samples[4] ELSE 0)
        rightSum == (IF isChannelEnabledOnRightOutput(1) THEN samples[1] ELSE 0)
                  + (IF isChannelEnabledOnRightOutput(2) THEN samples[2] ELSE 0)
                  + (IF isChannelEnabledOnRightOutput(3) THEN samples[3] ELSE 0)
                  + (IF isChannelEnabledOnRightOutput(4) THEN samples[4] ELSE 0)
    IN  [left |-> getSampleAsUnsignedByte(leftSum * (rightMixerVolume + 1)),
         right |-> getSampleAsUnsignedByte(rightSum * (rightMixerVolume + 1))]

MixedSample(samples) ==
    LET leftMixerVolume == (registerNR50 \div 16) % 8
        rightMixerVolume == registerNR50 % 8
        leftSum == (IF isChannelEnabledOnLeftOutput(1) THEN samples[1] ELSE 0)
                 + (IF isChannelEnabledOnLeftOutput(2) THEN samples[2] ELSE 0)
                 + (IF isChannelEnabledOnLeftOutput(3) THEN samples[3] ELSE 0)
                 + (IF isChannelEnabledOnLeftOutput(4) THEN samples[4] ELSE 0)
        rightSum == (IF isChannelEnabledOnRightOutput(1) THEN samples[1] ELSE 0)
                  + (IF isChannelEnabledOnRightOutput(2) THEN samples[2] ELSE 0)
                  + (IF isChannelEnabledOnRightOutput(3) THEN samples[3] ELSE 0)
                  + (IF isChannelEnabledOnRightOutput(4) THEN samples[4] ELSE 0)
    IN  [left |-> getSampleAsUnsignedByte(leftSum * (leftMixerVolume + 1)),
         right |-> getSampleAsUnsignedByte(rightSum * (rightMixerVolume + 1))]

\* Line 267: (0xFFFF / 2) - 1 on integers.
audioQueueWrapIndexMutWholeRange == 65535 - 1

audioQueueWrapIndex == (65535 \div 2) - 1

\* setLeftAndRightOutputForAudioQueue(left, right, index): the offsets in the
\* audio buffer of the left and the right byte (interleaved stereo bytes).
audioQueueByteOffsets(index) == <<2 * index, 2 * index + 1>>

\* Line 120: the i32 frame sequence counter after the cycles are added.
AddFrameSequenceCyclesMutDropsCycles(counter, numberOfCycles) ==
    IF counter + numberOfCycles >= maxFrameSequenceCycles
    THEN maxFrameSequenceCycles
    ELSE counter + numberOfCycles

AddFrameSequenceCycles(counter, numberOfCycles) == counter + numberOfCycles

\* Line 181: the u8 downsample counter after the cycles are added.
AddDownSampleCycles(counter, numberOfCycles) == (counter + numberOfCycles) % 256

\* updateSound(numberOfCycles); samples are the four values the channels'
\* getSample(numberOfCycles) return for this call.
updateSound(numberOfCycles, samples) ==
    LET fsc1 == AddFrameSequenceCycles(frameSequenceCycleCounter, numberOfCycles)
        reached == fsc1 >= maxFrameSequenceCycles
        ds1 == AddDownSampleCycles(downSampleCycleCounter, numberOfCycles)
        tick == ds1 >= maxDownSampleCycles
        mixed == MixedSample(samples)
        index1 == audioQueueIndex + 1
    IN  /\ frameSequenceCycleCounter' =
               IF reached THEN fsc1 - maxFrameSequenceCycles ELSE fsc1
        /\ soundClocks' = IF reached THEN FrameSequencerClocks(frameSequencer)
                          ELSE <<>>
        /\ frameSequencer' = IF reached THEN NextFrameSequencer(frameSequencer)
                             ELSE frameSequencer
        /\ sequencerAdvances' = sequencerAdvances + (IF reached THEN 1 ELSE 0)
        /\ downSampleCycleCounter' =
               IF tick THEN (ds1 - maxDownSampleCycles) % 256 ELSE ds1
        /\ soundWrite' = IF tick
                         THEN <<[left |-> mixed.left + 1, right |-> mixed.right + 1,
                                 index |-> audioQueueIndex]>>
                         ELSE <<>>
        /\ audioQueueIndex' = IF ~tick THEN audioQueueIndex
                              ELSE IF index1 >= audioQueueWrapIndex THEN 0
                              ELSE index1
        /\ samplesEmitted' = samplesEmitted + (IF tick THEN 1 ELSE 0)
        /\ soundCycles' = soundCycles + numberOfCycles
        /\ channelSamples' = samples
        /\ UNCHANGED <<registerNR50, registerNR51>>

\* resetAudioQueue()
resetAudioQueue == audioQueueIndex' = 0

-----------------------------------------------------------------------------
(* Initial state *)

GraphicsInit ==
    /\ scanlineCycleCounter = 0
    /\ currentLcdMode = 0
    /\ LY = 0
    /\ lcdControl \in LcdControlInputs
    /\ gfxCalls = <<>>
    /\ gfxCycles = 0
    /\ scanlinesDone = 0
    /\ lineLog = <<>>
    /\ passFrames = 0
    /\ passVBlanks = 0
    /\ passes = 0
    /\ lastPassFrames = 0
    /\ lastPassVBlanks = 0
    /\ frames = 0
    /\ lastFrameAt = 0
    /\ frameGap = 0

SaveStateInit ==
    /\ saveStateMemory = [a \in {} |-> 0]
    /\ soundSaved = <<>>
    /\ graphicsSaved = <<>>

SoundInit ==
    /\ frameSequenceCycleCounter = 0
    /\ downSampleCycleCounter = 0
    /\ frameSequencer = 0
    /\ audioQueueIndex = 0
    /\ registerNR50 = 119
    /\ registerNR51 = 243
    /\ soundClocks = <<>>
    /\ soundWrite = <<>>
    /\ soundCycles = 0
    /\ sequencerAdvances = 0
    /\ samplesEmitted = 0
    /\ channelSamples = <<0, 0, 0, 0>>

MemoryMapInit == memoryAddress = 0

ImageDataInit ==
    /\ frameNumber = 0
    /\ imageLength = 0
    /\ imagePixel = 0
    /\ imageBytes = <<>>

WorkerInit ==
    /\ libWorkerPort = Undefined
    /\ portOnMessage = {}
    /\ idCounter = 0
    /\ workerTerminated = FALSE
    /\ handled = Undefined
    /\ mainSent = <<>>
    /\ mainHandled = 0
    /\ libSent = <<>>
    /\ libDelivered = <<>>
    /\ workerToLib = <<>>
    /\ libHandled = {}
    /\ workerToMain = <<>>

HostInit == MemoryMapInit /\ ImageDataInit /\ WorkerInit

Init ==
    GraphicsInit /\ SoundInit /\ SaveStateInit /\ HostInit /\ lastOp = "init"

\* The Sound state after n > 0 calls of updateSound(87) with every channel
\* at 30, from SoundInit: every call emits one sample and leaves the down
\* sampler at 0, and the cycles split into whole frame sequencer periods of
\* 8192 and a remainder.
SoundAfterSamples(n) ==
    /\ frameSequenceCycleCounter = (n * 87) % 8192
    /\ downSampleCycleCounter = 0
    /\ frameSequencer = ((n * 87) \div 8192) % 8
    /\ audioQueueIndex = n % 32766
    /\ registerNR50 = 119
    /\ registerNR51 = 243
    /\ soundClocks = <<>>
    /\ soundWrite = <<[left |-> MixedSample(<<30, 30, 30, 30>>).left + 1,
                       right |-> MixedSample(<<30, 30, 30, 30>>).right + 1,
                       index |-> (n - 1) % 32766]>>
    /\ soundCycles = n * 87
    /\ sequencerAdvances = (n * 87) \div 8192
    /\ samplesEmitted = n
    /\ channelSamples = <<30, 30, 30, 30>>

SoundNearWrapInit == SoundAfterSamples(AudioQueueNearWrapSamples)

AudioQueueInit ==
    /\ GraphicsInit
    /\ (SoundInit \/ SoundNearWrapInit)
    /\ SaveStateInit
    /\ HostInit
    /\ lastOp = "init"

-----------------------------------------------------------------------------
(* Specifications *)

UpdateGraphics ==
    \E numberOfCycles \in CycleInputs :
        /\ gfxCycles + numberOfCycles <= MaxGfxCycles
        /\ updateGraphics(numberOfCycles)
        /\ lastOp' = "updateGraphics"
        /\ UNCHANGED hostVars
        /\ UNCHANGED <<soundVars, saveVars>>

NextGraphics == UpdateGraphics

SpecGraphics == Init /\ [][NextGraphics]_vars

UpdateSound ==
    \E numberOfCycles \in 0..255, samples \in SampleInputs :
        /\ soundCycles + numberOfCycles <= MaxSoundCycles
        /\ updateSound(numberOfCycles, samples)
        /\ lastOp' = "updateSound"
        /\ UNCHANGED hostVars
        /\ UNCHANGED <<gfxVars, saveVars>>

NextSound == UpdateSound

SpecSound == Init /\ [][NextSound]_vars

UpdateSoundSequencer ==
    \E numberOfCycles \in SequencerCycleInputs, samples \in SampleInputs :
        /\ soundCycles + numberOfCycles <= MaxSequencerCycles
        /\ updateSound(numberOfCycles, samples)
        /\ lastOp' = "updateSound"
        /\ UNCHANGED hostVars
        /\ UNCHANGED <<gfxVars, saveVars>>

NextSequencer == UpdateSoundSequencer

SpecSequencer == Init /\ [][NextSequencer]_vars

\* updateSound and the exported resetAudioQueue, from the start of a run and
\* from a write index close to its wrap.
UpdateSoundAudioQueue ==
    \E numberOfCycles \in CycleInputs \cup {87}, samples \in SampleInputs :
        /\ soundCycles + numberOfCycles <=
               (IF soundCycles >= AudioQueueNearWrapSamples * 87
                THEN AudioQueueNearWrapSamples * 87 ELSE 0) + MaxAudioQueueCycles
        /\ updateSound(numberOfCycles, samples)
        /\ lastOp' = "updateSound"
        /\ UNCHANGED hostVars
        /\ UNCHANGED <<gfxVars, saveVars>>

ResetAudioQueue ==
    /\ resetAudioQueue
    /\ lastOp' = "resetAudioQueue"
    /\ UNCHANGED hostVars
    /\ UNCHANGED <<frameSequenceCycleCounter, downSampleCycleCounter,
                   frameSequencer, registerNR50, registerNR51, soundClocks,
                   soundWrite, soundCycles, sequencerAdvances, samplesEmitted,
                   channelSamples>>
    /\ UNCHANGED <<gfxVars, saveVars>>

NextAudioQueue == UpdateSoundAudioQueue \/ ResetAudioQueue

SpecAudioQueue == AudioQueueInit /\ [][NextAudioQueue]_vars

\* updateSound with the program writing NR50 and NR51 between calls.
UpdateSoundMixer ==
    \E numberOfCycles \in {0, 87}, samples \in MixerSampleInputs :
        /\ soundCycles + numberOfCycles <= MaxMixerCycles
        /\ updateSound(numberOfCycles, samples)
        /\ lastOp' = "updateSound"
        /\ UNCHANGED hostVars
        /\ UNCHANGED <<gfxVars, saveVars>>

\* A write of the program to NR50 (0xFF24).
WriteNR50 ==
    \E value \in NR50Inputs :
        /\ registerNR50' = value
        /\ lastOp' = "writeNR50"
        /\ UNCHANGED hostVars
        /\ UNCHANGED <<frameSequenceCycleCounter, downSampleCycleCounter,
                       frameSequencer, audioQueueIndex, registerNR51,
                       soundClocks, soundWrite, soundCycles, sequencerAdvances,
                       samplesEmitted, channelSamples>>
        /\ UNCHANGED <<gfxVars, saveVars>>

\* A write of the program to NR51 (0xFF25).
WriteNR51 ==
    \E value \in NR51Inputs :
        /\ registerNR51' = value
        /\ lastOp' = "writeNR51"
        /\ UNCHANGED hostVars
        /\ UNCHANGED <<frameSequenceCycleCounter, downSampleCycleCounter,
                       frameSequencer, audioQueueIndex, registerNR50,
                       soundClocks, soundWrite, soundCycles, sequencerAdvances,
                       samplesEmitted, channelSamples>>
        /\ UNCHANGED <<gfxVars, saveVars>>

NextMixer == UpdateSoundMixer \/ WriteNR50 \/ WriteNR51

SpecMixer == Init /\ [][NextMixer]_vars

\* updateGraphics with the program writing LCDC between calls.
UpdateGraphicsLayers ==
    \E numberOfCycles \in {0, 200, 255} :
        /\ gfxCycles + numberOfCycles <= MaxLayersCycles
        /\ updateGraphics(numberOfCycles)
        /\ lastOp' = "updateGraphics"
        /\ UNCHANGED hostVars
        /\ UNCHANGED <<soundVars, saveVars>>

\* A write of the program to LCDC (0xFF40).
WriteLcdControl ==
    \E value \in LcdControlWriteInputs :
        /\ lcdControl' = value
        /\ lastOp' = "writeLcdControl"
        /\ UNCHANGED hostVars
        /\ UNCHANGED <<scanlineCycleCounter, currentLcdMode, LY, gfxCalls,
                       gfxCycles, scanlinesDone, lineLog, passFrames,
                       passVBlanks, passes, lastPassFrames, lastPassVBlanks,
                       frames, lastFrameAt, frameGap>>
        /\ UNCHANGED <<soundVars, saveVars>>

NextLayers == UpdateGraphicsLayers \/ WriteLcdControl

SpecLayers == Init /\ [][NextLayers]_vars

\* Sound.saveState()
SoundSaveState ==
    /\ saveStateMemory' =
          storeU8(
            storeU8(
              storeI32(saveStateMemory,
                       getSaveStateMemoryOffset(0, SoundSaveStateSlot),
                       frameSequenceCycleCounter),
              getSaveStateMemoryOffset(4, SoundSaveStateSlot),
              downSampleCycleCounter),
            getSaveStateMemoryOffset(5, SoundSaveStateSlot),
            frameSequencer)
    /\ soundSaved' = <<frameSequenceCycleCounter, downSampleCycleCounter,
                       frameSequencer, audioQueueIndex>>
    /\ lastOp' = "Sound.saveState"
    /\ UNCHANGED hostVars
    /\ UNCHANGED <<gfxVars, soundVars, graphicsSaved>>

\* Sound.loadState()
SoundLoadState ==
    /\ frameSequenceCycleCounter' =
          loadI32(saveStateMemory, getSaveStateMemoryOffset(0, SoundSaveStateSlot))
    /\ downSampleCycleCounter' =
          loadU8(saveStateMemory, getSaveStateMemoryOffset(4, SoundSaveStateSlot))
    /\ frameSequencer' =
          loadU8(saveStateMemory, getSaveStateMemoryOffset(5, SoundSaveStateSlot))
    /\ resetAudioQueue
    /\ lastOp' = "Sound.loadState"
    /\ UNCHANGED hostVars
    /\ UNCHANGED <<registerNR50, registerNR51, soundClocks, soundWrite,
                   soundCycles, sequencerAdvances, samplesEmitted,
                   channelSamples>>
    /\ UNCHANGED <<gfxVars, saveVars>>

\* Graphics.saveState()
GraphicsSaveState ==
    /\ saveStateMemory' =
          storeU8(
            storeI32(saveStateMemory,
                     getSaveStateMemoryOffset(0, GraphicsSaveStateSlot),
                     scanlineCycleCounter),
            getSaveStateMemoryOffset(4, GraphicsSaveStateSlot),
            currentLcdMode)
    /\ graphicsSaved' = <<scanlineCycleCounter, currentLcdMode>>
    /\ lastOp' = "Graphics.saveState"
    /\ UNCHANGED hostVars
    /\ UNCHANGED <<gfxVars, soundVars, soundSaved>>

\* Graphics.loadState()
GraphicsLoadState ==
    /\ scanlineCycleCounter' =
          loadI32(saveStateMemory, getSaveStateMemoryOffset(0, GraphicsSaveStateSlot))
    /\ currentLcdMode' =
          loadU8(saveStateMemory, getSaveStateMemoryOffset(4, GraphicsSaveStateSlot))
    /\ gfxCalls' = <<>>
    /\ lastOp' = "Graphics.loadState"
    /\ UNCHANGED hostVars
    /\ UNCHANGED <<LY, lcdControl, gfxCycles, scanlinesDone, lineLog,
                   passFrames, passVBlanks, passes, lastPassFrames,
                   lastPassVBlanks, frames, lastFrameAt, frameGap>>
    /\ UNCHANGED <<soundVars, saveVars>>

UpdateSoundSaveState ==
    \E numberOfCycles \in {87, 255}, samples \in {<<30, 30, 30, 30>>} :
        /\ soundCycles + numberOfCycles
              <= SaveStateStartSamples * 87 + MaxSaveStateSoundCycles
        /\ updateSound(numberOfCycles, samples)
        /\ lastOp' = "updateSound"
        /\ UNCHANGED hostVars
        /\ UNCHANGED <<gfxVars, saveVars>>

UpdateGraphicsSaveState ==
    \E numberOfCycles \in {255} :
        /\ gfxCycles + numberOfCycles <= MaxSaveStateGfxCycles
        /\ updateGraphics(numberOfCycles)
        /\ lastOp' = "updateGraphics"
        /\ UNCHANGED hostVars
        /\ UNCHANGED <<soundVars, saveVars>>

SaveStateStartInit ==
    /\ GraphicsInit
    /\ SoundAfterSamples(SaveStateStartSamples)
    /\ SaveStateInit
    /\ HostInit
    /\ lastOp = "init"

NextSaveState ==
    \/ UpdateSoundSaveState
    \/ UpdateGraphicsSaveState
    \/ SoundSaveState
    \/ SoundLoadState
    \/ GraphicsSaveState
    \/ GraphicsLoadState

SpecSaveState == SaveStateStartInit /\ [][NextSaveState]_vars

UpdateSoundAudioQueueFill ==
    \E numberOfCycles \in AudioQueueFillCycleInputs, samples \in SampleInputs :
        /\ soundCycles + numberOfCycles <= MaxAudioQueueFillCycles
        /\ updateSound(numberOfCycles, samples)
        /\ lastOp' = "updateSound"
        /\ UNCHANGED hostVars
        /\ UNCHANGED <<gfxVars, saveVars>>

NextAudioQueueFill == UpdateSoundAudioQueueFill

SpecAudioQueueFill == Init /\ [][NextAudioQueueFill]_vars

\* An access of the core to a byte of a region of the memory map, in wasm
\* memory of WASMBOY_WASM_PAGES pages.
AccessMemory ==
    \E region \in 1..Len(MemoryRegions) :
        \E offset \in {0, 1, 2,
                       MemoryRegions[region].size \div 8,
                       MemoryRegions[region].size \div 4,
                       MemoryRegions[region].size \div 2,
                       (3 * MemoryRegions[region].size) \div 4,
                       MemoryRegions[region].size - 2,
                       MemoryRegions[region].size - 1} :
            /\ memoryAddress' = MemoryRegions[region].location + offset
            /\ lastOp' = "accessMemory"
            /\ UNCHANGED <<gfxVars, soundVars, saveVars, imageVars, workerVars>>

\* Line 165: the conversion of the next frame buffer the lib worker sends;
\* the length of the returned array and the bytes of one of its pixels are
\* kept.
ConvertFrameBuffer ==
    \E pixel \in ImagePixelInputs :
        LET imageDataArray ==
                getImageDataFromGraphicsFrameBuffer(FrameBuffer(frameNumber + 1))
        IN  /\ frameNumber < MaxFrameNumber
            /\ frameNumber' = frameNumber + 1
            /\ imageLength' = imageDataArrayLength
            /\ imagePixel' = pixel
            /\ imageBytes' = <<imageDataArray[pixel * 4],
                               imageDataArray[pixel * 4 + 1],
                               imageDataArray[pixel * 4 + 2],
                               imageDataArray[pixel * 4 + 3]>>
            /\ lastOp' = "getImageDataFromGraphicsFrameBuffer"
            /\ UNCHANGED <<gfxVars, soundVars, saveVars, mapVars, workerVars>>

NextImageData == ConvertFrameBuffer

SpecImageData == Init /\ [][NextImageData]_vars

\* ---- The graphics worker between the main thread and the lib worker ----

notWorkerVars == <<gfxVars, soundVars, saveVars, mapVars, imageVars>>

\* The main thread posts a message to the worker.
MainPostMessage(message) ==
    /\ mainSent' = Append(mainSent,
                          [messageId |-> mainMessageId(Len(mainSent) + 1),
                           message |-> message])
    /\ lastOp' = "main.postMessage"
    /\ UNCHANGED <<libWorkerPort, portOnMessage, idCounter, workerTerminated,
                   handled, mainHandled, libSent, libDelivered, workerToLib,
                   libHandled, workerToMain>>
    /\ UNCHANGED notWorkerVars

\* CONNECT carries one end of a new channel to the lib worker.
MainPostConnect(maxPorts) ==
    /\ CountType(mainSent, WORKER_MESSAGE_TYPE.CONNECT) < maxPorts
    /\ MainPostMessage(
          [type |-> WORKER_MESSAGE_TYPE.CONNECT,
           ports |-> <<MessagePort(
               CountType(mainSent, WORKER_MESSAGE_TYPE.CONNECT) + 1)>>])

MainConnect == MainPostConnect(MaxPorts)

MainConnectFrames == MainPostConnect(MaxFramePorts)

MainGetConstants ==
    /\ CountType(mainSent, WORKER_MESSAGE_TYPE.GET_CONSTANTS) < MaxGetConstants
    /\ MainPostMessage([type |-> WORKER_MESSAGE_TYPE.GET_CONSTANTS])

MainOther ==
    \E type \in OtherMainTypes :
        /\ OtherMessages < MaxOtherMessages
        /\ MainPostMessage([type |-> type])

\* The lib worker posts a message on its end of a channel.
LibPostMessage(port, messageId, message) ==
    /\ libSent' = Append(libSent, [port |-> port, messageId |-> messageId,
                                   message |-> message])
    /\ UNCHANGED <<libWorkerPort, portOnMessage, idCounter, workerTerminated,
                   handled, mainSent, mainHandled, libDelivered, workerToLib,
                   workerToMain>>
    /\ UNCHANGED notWorkerVars

\* The lib worker answers the oldest request of a port, echoing its id.
LibGetConstantsDone ==
    \E i \in (1..Len(workerToLib)) \ libHandled :
        /\ \A j \in 1..(i - 1) :
              workerToLib[j].port = workerToLib[i].port => j \in libHandled
        /\ libHandled' = libHandled \cup {i}
        /\ LibPostMessage(workerToLib[i].port, workerToLib[i].messageId,
                          [type |-> WORKER_MESSAGE_TYPE.GET_CONSTANTS_DONE])
        /\ lastOp' = "lib.getConstantsDone"

\* The lib worker posts a frame.
LibUpdated ==
    \E port \in SentPorts :
        /\ CountType(libSent, WORKER_MESSAGE_TYPE.UPDATED) < MaxUpdated
        /\ LibPostMessage(port, libMessageId(Len(libSent) + 1),
              [type |-> WORKER_MESSAGE_TYPE.UPDATED,
               graphicsFrameBuffer |->
                   CountType(libSent, WORKER_MESSAGE_TYPE.UPDATED) + 1])
        /\ lastOp' = "lib.updated"
        /\ UNCHANGED libHandled

LibOther ==
    \E port \in SentPorts :
        \E type \in OtherLibTypes :
            /\ OtherMessages < MaxOtherMessages
            /\ LibPostMessage(port, libMessageId(Len(libSent) + 1),
                              [type |-> type])
            /\ lastOp' = "lib.other"
            /\ UNCHANGED libHandled

\* Lines 22-29: postMessage to the main thread.
postMessage(message) == workerToMain' = Append(workerToMain, message)

\* Lines 152-173, invoked for the oldest undelivered message of a port the
\* handler is attached to.
libMessageHandler ==
    \E i \in (1..Len(libSent)) \ {libDelivered[k] : k \in 1..Len(libDelivered)} :
        LET eventData == libSent[i] IN
        /\ ~workerTerminated
        /\ eventData.port \in portOnMessage
        /\ \A j \in 1..(i - 1) :
              libSent[j].port = eventData.port =>
                  \E k \in 1..Len(libDelivered) : libDelivered[k] = j
        /\ libDelivered' = Append(libDelivered, i)
        /\ handled' = eventData
        /\ CASE eventData.message.type = WORKER_MESSAGE_TYPE.GET_CONSTANTS_DONE ->
                  /\ postMessage(getSmartWorkerMessage(eventData.message,
                                     eventData.messageId, Undefined))
                  /\ idCounter' = idCounterAfter(eventData.messageId)
             [] eventData.message.type = WORKER_MESSAGE_TYPE.UPDATED ->
                  /\ postMessage(getSmartWorkerMessage(
                        [type |-> WORKER_MESSAGE_TYPE.UPDATED,
                         imageDataArrayBuffer |->
                             [byteLength |-> imageDataArrayLength,
                              image |-> eventData.message.graphicsFrameBuffer]],
                        Undefined, Undefined))
                  /\ idCounter' = idCounterAfter(Undefined)
             [] OTHER ->
                  UNCHANGED <<workerToMain, idCounter>>
        /\ lastOp' = "libMessageHandler"
        /\ UNCHANGED <<libWorkerPort, portOnMessage, workerTerminated, mainSent,
                       mainHandled, libSent, workerToLib, libHandled>>
        /\ UNCHANGED notWorkerVars

\* Lines 175-205, invoked for the oldest message of the main thread.  At
\* line 193 libWorkerPort.postMessage throws a TypeError when libWorkerPort
\* is undefined; nothing catches it: a browser reports it and goes on, Node
\* (worker_threads) ends the worker.
messageHandler ==
    LET eventData == mainSent[mainHandled + 1] IN
    /\ ~workerTerminated
    /\ mainHandled < Len(mainSent)
    /\ mainHandled' = mainHandled + 1
    /\ CASE eventData.message.type = WORKER_MESSAGE_TYPE.CONNECT ->
              /\ libWorkerPort' = eventData.message.ports[1]
              /\ portOnMessage' = portOnMessage \cup {eventData.message.ports[1]}
              /\ postMessage(getSmartWorkerMessage(Undefined,
                                 eventData.messageId, Undefined))
              /\ idCounter' = idCounterAfter(eventData.messageId)
              /\ handled' = eventData
              /\ UNCHANGED <<workerToLib, workerTerminated>>
         [] eventData.message.type = WORKER_MESSAGE_TYPE.GET_CONSTANTS ->
              IF libWorkerPort = Undefined
              THEN \E isInBrowser \in BOOLEAN :
                     /\ workerTerminated' = ~isInBrowser
                     /\ handled' = [eventData EXCEPT
                                       !.message = [type |-> "TypeError"]]
                     /\ UNCHANGED <<libWorkerPort, portOnMessage, idCounter,
                                    workerToLib, workerToMain>>
              ELSE /\ workerToLib' = Append(workerToLib,
                         [port |-> libWorkerPort] @@
                         getSmartWorkerMessage(
                             [type |-> WORKER_MESSAGE_TYPE.GET_CONSTANTS],
                             eventData.messageId, Undefined))
                   /\ idCounter' = idCounterAfter(eventData.messageId)
                   /\ handled' = eventData
                   /\ UNCHANGED <<libWorkerPort, portOnMessage, workerToMain,
                                  workerTerminated>>
         [] OTHER ->
              /\ handled' = eventData
              /\ UNCHANGED <<libWorkerPort, portOnMessage, idCounter,
                             workerToLib, workerToMain, workerTerminated>>
    /\ lastOp' = "messageHandler"
    /\ UNCHANGED <<mainSent, libSent, libDelivered, libHandled>>
    /\ UNCHANGED notWorkerVars

\* Requests for the constants and their answers.
NextWorker ==
    \/ MainConnect
    \/ MainGetConstants
    \/ LibGetConstantsDone
    \/ libMessageHandler
    \/ messageHandler

SpecWorker == Init /\ [][NextWorker]_vars

\* Every message posted is delivered and its handler runs (the event loops
\* of the worker and of the lib worker), and the lib worker answers every
\* request.
SpecWorkerFair ==
    /\ SpecWorker
    /\ WF_vars(messageHandler)
    /\ WF_vars(libMessageHandler)
    /\ WF_vars(LibGetConstantsDone)

\* Frames, and messages the worker has no case for.
NextWorkerFrames ==
    \/ MainConnectFrames
    \/ MainOther
    \/ LibUpdated
    \/ LibOther
    \/ libMessageHandler
    \/ messageHandler

SpecWorkerFrames == Init /\ [][NextWorkerFrames]_vars

NextMemoryMap == AccessMemory

SpecMemoryMap == Init /\ [][NextMemoryMap]_vars

-----------------------------------------------------------------------------
(* Properties of updateGraphics, checked under SpecGraphics *)

FrameCalls == CallsNamed(gfxCalls, "storeFrameToBeRendered")
VBlankCalls == CallsNamed(gfxCalls, "requestVBlankInterrupt")
DrawCalls == CallsNamed(gfxCalls, "_drawScanline")

\* C1 (as claimed): with the LCD enabled the LY register stays in 0..153; the
\* scanline after LY=153 is LY=0, so LY never holds 154 or more.
C1_LYStaysBelow154 == LY \in 0..153

\* C2 (as claimed): from a frame start, the interval between two consecutive
\* frame emissions is exactly 154 scanlines x 456 cycles = 70224 cycles.
C2_FrameIntervalIs70224 == frames >= 2 => frameGap = 154 * 456

\* C3 (as claimed): _drawScanline is only ever invoked with a scanline index
\* in 0..143; no row with index 144 or higher is rendered.
C3_OnlyVisibleRowsDrawn ==
    \A i \in 1..Len(DrawCalls) : DrawCalls[i].line \in 0..143

\* C4 (as claimed): the V-Blank request and the frame emission happen in the
\* call in which LY becomes 144: right after the call that raises them, LY
\* reads 144.
C4_VBlankRaisedWhenLYBecomes144 ==
    (Len(FrameCalls) > 0 \/ Len(VBlankCalls) > 0) => LY = 144

\* C5: per pass of LY through its range, storeFrameToBeRendered is called
\* exactly once and requestVBlankInterrupt exactly once, both in the same
\* updateGraphics call; neither is called without the other, and neither is
\* called twice without LY wrapping to 0 in between.
C5_FrameAndVBlankOncePerPass ==
    /\ Len(FrameCalls) = Len(VBlankCalls)
    /\ Len(FrameCalls) <= 1
    /\ passFrames = passVBlanks
    /\ passFrames <= 1
    /\ (passes > 0 => lastPassFrames = 1 /\ lastPassVBlanks = 1)

C5_Witness == passes >= 1 /\ passFrames = 1 /\ Len(FrameCalls) = 1

\* C6: within one frame each scanline index 0..143 is drawn exactly once, in
\* ascending order, and when _drawScanline(i) runs the LY register holds i.
VisibleLog == SelectSeq(lineLog, LAMBDA d : d.line \in 0..143)

C6_VisibleLinesOnceAscendingAtLY ==
    LET visible == VisibleLog
    IN  /\ \A i \in 1..Len(visible) :
              visible[i].line = i - 1 /\ visible[i].ly = visible[i].line
        /\ Len(visible) = (IF LY < 144 THEN LY ELSE 144)

C6_Witness == passes >= 1 /\ LY = 150 /\ Len(VisibleLog) = 144

-----------------------------------------------------------------------------
(* Properties of the frame sequencer, checked under SpecSequencer *)

ClocksOf(calls) == {calls[i] : i \in 1..Len(calls)}

LengthClockSet ==
    {"Channel1.updateLength", "Channel2.updateLength",
     "Channel3.updateLength", "Channel4.updateLength"}

\* C7: when the frame-sequence cycle counter reaches 8192 in updateSound, the
\* clocks called are decided by the frameSequencer index before it advances:
\* 0 and 4 clock length on channels 1-4; 2 and 6 clock length on channels 1-4
\* and sweep on channel 1; 7 clocks the envelope on channels 1, 2 and 4; 1, 3
\* and 5 clock nothing.  When the counter does not reach 8192 nothing is
\* clocked.
C7_FrameSequencerSchedule ==
    [][LET numberOfCycles == soundCycles' - soundCycles
           reached == frameSequenceCycleCounter + numberOfCycles >= 8192
           clocked == ClocksOf(soundClocks')
       IN  /\ (~reached => clocked = {})
           /\ (reached /\ frameSequencer \in {0, 4} => clocked = LengthClockSet)
           /\ (reached /\ frameSequencer \in {2, 6} =>
                  clocked = LengthClockSet \cup {"Channel1.updateSweep"})
           /\ (reached /\ frameSequencer = 7 =>
                  clocked = {"Channel1.updateEnvelope", "Channel2.updateEnvelope",
                             "Channel4.updateEnvelope"})
           /\ (reached /\ frameSequencer \in {1, 3, 5} => clocked = {})
      ]_vars

C7_Witness ==
    /\ sequencerAdvances = 8
    /\ frameSequencer = 0
    /\ ClocksOf(soundClocks) = {"Channel1.updateEnvelope", "Channel2.updateEnvelope",
                                "Channel4.updateEnvelope"}

\* C8: from frameSequenceCycleCounter=0 and frameSequencer=0, frameSequencer
\* is always in 0..7 and advances by one (7 wraps to 0) per 8192 accumulated
\* cycles; after every call 0 <= frameSequenceCycleCounter < 8192 and
\* (sequencer advances) x 8192 + frameSequenceCycleCounter equals the total
\* cycles passed.
C8_SequencerCountsEveryCycle ==
    /\ frameSequencer \in 0..7
    /\ frameSequenceCycleCounter >= 0
    /\ frameSequenceCycleCounter < 8192
    /\ sequencerAdvances * 8192 + frameSequenceCycleCounter = soundCycles
    /\ frameSequencer = sequencerAdvances % 8

C8_Witness ==
    /\ sequencerAdvances = 8
    /\ frameSequencer = 0
    /\ frameSequenceCycleCounter > 0

-----------------------------------------------------------------------------
(* Properties of the downsampler, checked under SpecSound *)

\* C9 (as claimed): for updateSound calls whose numberOfCycles (each 0..255)
\* sum to N, the number of stereo samples written is floor(N/87) +- 1.
C9_SamplesWithinOneOfFloor ==
    /\ samplesEmitted >= (soundCycles \div 87) - 1
    /\ samplesEmitted <= (soundCycles \div 87) + 1

\* C10 (as claimed): the downsample counter loses no cycles and never wraps
\* modulo 256: after every call downSampleCycleCounter < 87 and
\* 87 x (samples emitted) + downSampleCycleCounter equals the total cycles.
C10_DownSamplerLosesNoCycle ==
    /\ downSampleCycleCounter < 87
    /\ 87 * samplesEmitted + downSampleCycleCounter = soundCycles

\* C19: with the LCD enabled, after every updateGraphics call
\* 0 <= scanlineCycleCounter < 456 and 456 x scanlines completed +
\* scanlineCycleCounter equals the cycles passed (the excess over 456 is
\* carried into the next scanline), and a call moves LY by at most one step.
C19_ScanlineCounterCarriesExcess ==
    /\ [](/\ scanlineCycleCounter >= 0
          /\ scanlineCycleCounter < 456
          /\ 456 * scanlinesDone + scanlineCycleCounter = gfxCycles)
    /\ [][lastOp' = "updateGraphics" =>
            /\ scanlinesDone' \in {scanlinesDone, scanlinesDone + 1}
            /\ \/ LY' = LY /\ scanlinesDone' = scanlinesDone
               \/ LY' = LY + 1 /\ scanlinesDone' = scanlinesDone + 1
               \/ LY' = 0 /\ LY = 154 /\ scanlinesDone' = scanlinesDone + 1
       ]_vars

\* A scanline ended with cycles left over that were carried.
C19_Witness ==
    /\ lastOp = "updateGraphics"
    /\ scanlinesDone = 3
    /\ scanlineCycleCounter = 162
    /\ gfxCycles = 1530
    /\ LY = 3

-----------------------------------------------------------------------------
(* Properties of the audio queue *)

\* C11: audioQueueIndex advances by exactly one per emitted stereo sample and
\* wraps to 0 when it reaches (0xFFFF/2)-1; in every reachable state
\* 0 <= audioQueueIndex < (0xFFFF/2)-1, and the byte pair written for an
\* index lies inside the audio buffer (2*index+1 < AUDIO_BUFFER_SIZE).
C11_AudioQueueIndexStaysInBuffer ==
    /\ [](/\ audioQueueIndex >= 0
          /\ audioQueueIndex < 32766
          /\ \A i \in 1..Len(soundWrite) :
                /\ audioQueueByteOffsets(soundWrite[i].index)[1] >= 0
                /\ audioQueueByteOffsets(soundWrite[i].index)[2] < AUDIO_BUFFER_SIZE)
    /\ [][lastOp' = "updateSound" =>
            IF samplesEmitted' = samplesEmitted + 1
            THEN /\ soundWrite'[1].index = audioQueueIndex
                 /\ audioQueueIndex' =
                        (IF audioQueueIndex + 1 = 32766 THEN 0 ELSE audioQueueIndex + 1)
            ELSE /\ samplesEmitted' = samplesEmitted
                 /\ audioQueueIndex' = audioQueueIndex
       ]_vars

C11_Witness ==
    /\ lastOp = "updateSound"
    /\ audioQueueIndex = 0
    /\ Len(soundWrite) = 1
    /\ soundWrite[1].index = 32765

-----------------------------------------------------------------------------
(* Properties of the mixer, checked under SpecMixer *)

\* The sum of the channel samples whose enable bit, firstBit + channel, is
\* set in NR51 (firstBit 3 for the left output, -1 for the right output).
EnabledSum(firstBit) ==
    LET bit(k) == (registerNR51 \div (2 ^ (firstBit + k))) % 2
    IN  bit(1) * channelSamples[1] + bit(2) * channelSamples[2]
      + bit(3) * channelSamples[3] + bit(4) * channelSamples[4]

LeftVolume == (registerNR50 \div 16) % 8
RightVolume == registerNR50 % 8

\* C12: on a downsample tick the left value is
\* trunc(sum of the samples enabled by NR51 bits 4-7 x (NR50 bits 6-4 + 1)
\* x 1000 / 3779) and the right value the same over NR51 bits 0-3 and NR50
\* bits 2-0 (the written bytes are these values plus one); neither side
\* reads the other side's enable bits or volume.
C12_MixerFormula ==
    lastOp = "updateSound" =>
    \A i \in 1..Len(soundWrite) :
        /\ soundWrite[i].left - 1 =
               (EnabledSum(3) * (LeftVolume + 1) * 1000) \div 3779
        /\ soundWrite[i].right - 1 =
               (EnabledSum(-1) * (RightVolume + 1) * 1000) \div 3779

C12_Witness ==
    /\ lastOp = "updateSound"
    /\ Len(soundWrite) = 1
    /\ registerNR51 = 165
    /\ registerNR50 = 53
    /\ channelSamples = <<1, 2, 4, 8>>
    /\ soundWrite[1].left = 11
    /\ soundWrite[1].right = 8

\* C13: with every channel sample in 0..30 the value computed by
\* getSampleAsUnsignedByte is in 0..254 before its cast to u8 (so the cast
\* truncates nothing), and the stored left and right bytes are that value
\* plus one, in 1..255.
C13_StoredBytesNeverZero ==
    lastOp = "updateSound" =>
    \A i \in 1..Len(soundWrite) :
        LET left == adjustedSample(EnabledSum(3) * (LeftVolume + 1))
            right == adjustedSample(EnabledSum(-1) * (RightVolume + 1))
        IN  /\ \A k \in 1..4 : channelSamples[k] \in 0..30
            /\ left \in 0..254
            /\ right \in 0..254
            /\ soundWrite[i].left = left + 1
            /\ soundWrite[i].right = right + 1
            /\ soundWrite[i].left \in 1..255
            /\ soundWrite[i].right \in 1..255

C13_Witness ==
    /\ lastOp = "updateSound"
    /\ Len(soundWrite) = 1
    /\ channelSamples = <<30, 30, 30, 30>>
    /\ registerNR50 = 119
    /\ registerNR51 = 255
    /\ soundWrite[1].left = 255
    /\ soundWrite[1].right = 255

-----------------------------------------------------------------------------
(* Properties of _drawScanline and the LCD enable, checked under SpecLayers *)

RenderNames == {"renderBackground", "renderWindow", "renderSprites"}

LcdControlBit(bitPosition) == (lcdControl \div (2 ^ bitPosition)) % 2 = 1

\* C15: a _drawScanline renders background, then window, then sprites, the
\* background only with LCDC bit 0, the window only with bit 5, the sprites
\* only with bit 1 (their height argument is bit 2); a layer whose bit is
\* clear is left out and the others keep their order.
C15_LayersInFixedOrder ==
    (lastOp = "updateGraphics" /\ Len(DrawCalls) > 0) =>
        LET renders == SelectSeq(gfxCalls, LAMBDA c : c.call \in RenderNames)
            expected ==
                (IF LcdControlBit(0) THEN <<"renderBackground">> ELSE <<>>)
             \o (IF LcdControlBit(5) THEN <<"renderWindow">> ELSE <<>>)
             \o (IF LcdControlBit(1) THEN <<"renderSprites">> ELSE <<>>)
        IN  /\ Len(DrawCalls) = 1
            /\ gfxCalls[1].call = "_drawScanline"
            /\ [i \in 1..Len(renders) |-> renders[i].call] = expected
            /\ \A i \in 1..Len(renders) :
                  /\ gfxCalls[i + 1] = renders[i]
                  /\ renders[i].line = gfxCalls[1].line
                  /\ renders[i].call = "renderSprites" =>
                        renders[i].a = (IF LcdControlBit(2) THEN 1 ELSE 0)

\* Background and sprites rendered in that order with the window skipped.
C15_Witness ==
    /\ lastOp = "updateGraphics"
    /\ Len(gfxCalls) = 3
    /\ gfxCalls[1].call = "_drawScanline"
    /\ gfxCalls[2].call = "renderBackground"
    /\ gfxCalls[3].call = "renderSprites"
    /\ gfxCalls[3].a = 1
    /\ ~LcdControlBit(5)

\* C20: a call of updateGraphics made while the LCD is disabled leaves
\* scanlineCycleCounter and LY unchanged and makes no call: no scanline is
\* drawn, no frame stored, no V-Blank interrupt requested.
C20_DisabledLcdDoesNothing ==
    [][(lastOp' = "updateGraphics" /\ ~LcdControlBit(7)) =>
          /\ scanlineCycleCounter' = scanlineCycleCounter
          /\ LY' = LY
          /\ gfxCalls' = <<>>
      ]_vars

\* A call made with the LCD disabled in the middle of scanline 2.
C20_Witness ==
    /\ lastOp = "updateGraphics"
    /\ ~LcdControlBit(7)
    /\ scanlineCycleCounter > 0
    /\ LY = 2
    /\ gfxCalls = <<>>

-----------------------------------------------------------------------------
(* Properties of the save states, checked under SpecSaveState *)

\* C14 (as claimed): saveState directly followed by loadState yields the
\* state it started from, in every field that decides later outputs,
\* including the audio queue write index.
C14_SaveLoadRoundTrip ==
    [][/\ (lastOp = "Sound.saveState" /\ lastOp' = "Sound.loadState") =>
             UNCHANGED <<frameSequenceCycleCounter, downSampleCycleCounter,
                         frameSequencer, audioQueueIndex>>
       /\ (lastOp = "Graphics.saveState" /\ lastOp' = "Graphics.loadState") =>
             UNCHANGED <<scanlineCycleCounter, currentLcdMode, LY>>
      ]_vars

\* The addresses of a save state slot.
SlotAddresses(saveStateSlot) ==
    getSaveStateMemoryOffset(0, saveStateSlot)
        .. (getSaveStateMemoryOffset(0, saveStateSlot + 1) - 1)

\* C18: Sound.loadState after a Sound.saveState restores
\* frameSequenceCycleCounter, downSampleCycleCounter and frameSequencer to
\* the saved values whatever happened in between and always leaves
\* audioQueueIndex at 0; Graphics.loadState after a Graphics.saveState
\* restores scanlineCycleCounter and currentLcdMode; a saveState changes no
\* component state and no byte of the other component's slot.
C18_SaveThenLoadRestoresFields ==
    /\ [](/\ lastOp = "Sound.loadState" =>
                /\ audioQueueIndex = 0
                /\ soundSaved # <<>> =>
                      /\ frameSequenceCycleCounter = soundSaved[1]
                      /\ downSampleCycleCounter = soundSaved[2]
                      /\ frameSequencer = soundSaved[3]
          /\ (lastOp = "Graphics.loadState" /\ graphicsSaved # <<>>) =>
                /\ scanlineCycleCounter = graphicsSaved[1]
                /\ currentLcdMode = graphicsSaved[2])
    /\ [][/\ lastOp' = "Sound.saveState" =>
                /\ UNCHANGED <<gfxVars, soundVars>>
                /\ \A a \in SlotAddresses(GraphicsSaveStateSlot) :
                      loadU8(saveStateMemory', a) = loadU8(saveStateMemory, a)
          /\ lastOp' = "Graphics.saveState" =>
                /\ UNCHANGED <<gfxVars, soundVars>>
                /\ \A a \in SlotAddresses(SoundSaveStateSlot) :
                      loadU8(saveStateMemory', a) = loadU8(saveStateMemory, a)
         ]_vars

\* A Sound.loadState that brings back a save made before the frame sequencer
\* advanced and before more samples were written, with a graphics save made
\* in between.
C18_Witness ==
    /\ lastOp = "Sound.loadState"
    /\ soundSaved # <<>>
    /\ soundSaved[1] > 255
    /\ soundSaved[4] > 0
    /\ sequencerAdvances > 0
    /\ frameSequencer = 0
    /\ frameSequenceCycleCounter = soundSaved[1]
    /\ graphicsSaved # <<>>
    /\ graphicsSaved[1] > 0

-----------------------------------------------------------------------------
(* The capacity of the audio queue, checked under SpecAudioQueueFill *)

\* C17 (as claimed): the audio queue holds at most MAX_NUMBER_OF_SAMPLES
\* (4096) samples: in every reachable state audioQueueIndex <= 4096.
C17_AudioQueueIndexAtMost4096 == audioQueueIndex <= 4096

-----------------------------------------------------------------------------
(* The graphics worker's message routing, checked under SpecWorkerFair,    *)
(* SpecWorkerFrames and SpecWorker                                         *)

IsType(smartMessage, type) == smartMessage.message.type = type

\* The main thread's n-th message is a GET_CONSTANTS request and
\* messageHandler has been invoked for it and for a CONNECT before it.
RequestAfterConnect(n) ==
    /\ n <= mainHandled
    /\ IsType(mainSent[n], WORKER_MESSAGE_TYPE.GET_CONSTANTS)
    /\ \E c \in 1..(n - 1) : IsType(mainSent[c], WORKER_MESSAGE_TYPE.CONNECT)

\* The port of the last CONNECT before the main thread's n-th message.
PortAt(n) ==
    LET c == CHOOSE c \in 1..(n - 1) :
                 /\ IsType(mainSent[c], WORKER_MESSAGE_TYPE.CONNECT)
                 /\ \A d \in (c + 1)..(n - 1) :
                        ~IsType(mainSent[d], WORKER_MESSAGE_TYPE.CONNECT)
    IN  mainSent[c].message.ports[1]

\* The messages of a log that carry an id and have a type.
WithId(messages, messageId, type) ==
    {i \in 1..Len(messages) :
        messages[i].messageId = messageId /\ IsType(messages[i], type)}

\* The messages of the lib worker that libMessageHandler has been invoked
\* for, in the order of the invocations.
LibReceived == [k \in 1..Len(libDelivered) |-> libSent[libDelivered[k]]]

\* Every request handled after a CONNECT is on the lib port of that CONNECT
\* once, with its own id, and nothing else is; every GET_CONSTANTS_DONE
\* received is with the main thread once, with the id it came with, and no
\* other is.
ForwardedAndRelayedOnce ==
    /\ \A n \in 1..mainHandled :
          RequestAfterConnect(n) =>
              \E i \in 1..Len(workerToLib) :
                  /\ WithId(workerToLib, mainSent[n].messageId,
                            WORKER_MESSAGE_TYPE.GET_CONSTANTS) = {i}
                  /\ workerToLib[i].port = PortAt(n)
    /\ Len(workerToLib)
         = Cardinality({n \in 1..mainHandled : RequestAfterConnect(n)})
    /\ \A k \in 1..Len(LibReceived) :
          IsType(LibReceived[k], WORKER_MESSAGE_TYPE.GET_CONSTANTS_DONE) =>
              Cardinality(WithId(workerToMain, LibReceived[k].messageId,
                                 WORKER_MESSAGE_TYPE.GET_CONSTANTS_DONE)) = 1
    /\ CountType(workerToMain, WORKER_MESSAGE_TYPE.GET_CONSTANTS_DONE)
         = CountType(LibReceived, WORKER_MESSAGE_TYPE.GET_CONSTANTS_DONE)

\* The main thread has one GET_CONSTANTS_DONE with the id of its n-th message.
Answered(n) ==
    Cardinality(WithId(workerToMain, mainMessageId(n),
                       WORKER_MESSAGE_TYPE.GET_CONSTANTS_DONE)) = 1

\* C21: every GET_CONSTANTS request the worker receives after a CONNECT is
\* forwarded once to the lib port with the request's messageId, every
\* GET_CONSTANTS_DONE received from the lib worker is relayed once to the
\* main thread with the messageId it arrived with, and, the lib worker
\* echoing the id, every such request is eventually answered by exactly one
\* response with its messageId, and never by more than one.
C21_RequestsAnsweredOnce ==
    /\ [](ForwardedAndRelayedOnce
          /\ \A n \in 1..Len(mainSent) :
                Cardinality(WithId(workerToMain, mainSent[n].messageId,
                                   WORKER_MESSAGE_TYPE.GET_CONSTANTS_DONE)) <= 1)
    /\ \A n \in 1..(MaxPorts + MaxGetConstants) :
          RequestAfterConnect(n) ~> Answered(n)

\* Two requests, forwarded on different ports, were in flight together and
\* the answer to the second reached the main thread before the answer to
\* the first.
C21_Witness ==
    /\ Len(workerToLib) = 2
    /\ workerToLib[1].port # workerToLib[2].port
    /\ CountType(workerToMain, WORKER_MESSAGE_TYPE.GET_CONSTANTS_DONE) = 2
    /\ \E i, j \in 1..Len(workerToMain) :
          /\ i < j
          /\ workerToMain[i].messageId = workerToLib[2].messageId
          /\ workerToMain[j].messageId = workerToLib[1].messageId
          /\ IsType(workerToMain[i], WORKER_MESSAGE_TYPE.GET_CONSTANTS_DONE)
          /\ IsType(workerToMain[j], WORKER_MESSAGE_TYPE.GET_CONSTANTS_DONE)

IsUpdated(smartMessage) == IsType(smartMessage, WORKER_MESSAGE_TYPE.UPDATED)

\* The UPDATED messages posted to the main thread are, in order, one for
\* each UPDATED message received, each with a buffer of 160 x 144 x 4 bytes
\* made from the frame received.
UpdatedRelayedInOrder ==
    LET received == SelectSeq(LibReceived, IsUpdated)
        posted == SelectSeq(workerToMain, IsUpdated)
    IN  /\ Len(posted) = Len(received)
        /\ \A k \in 1..Len(posted) :
              /\ posted[k].message.imageDataArrayBuffer.byteLength
                   = 160 * 144 * 4
              /\ posted[k].message.imageDataArrayBuffer.image
                   = received[k].message.graphicsFrameBuffer

\* A handler invoked for a message of a type it has no case for posts
\* nothing and leaves the lib port as it is.
OtherTypesDoNothing ==
    (\/ /\ lastOp' = "libMessageHandler"
        /\ handled'.message.type \notin
              {WORKER_MESSAGE_TYPE.UPDATED,
               WORKER_MESSAGE_TYPE.GET_CONSTANTS_DONE}
     \/ /\ lastOp' = "messageHandler"
        /\ handled'.message.type \notin
              {WORKER_MESSAGE_TYPE.CONNECT, WORKER_MESSAGE_TYPE.GET_CONSTANTS,
               "TypeError"})
    => /\ workerToMain' = workerToMain
       /\ workerToLib' = workerToLib
       /\ libWorkerPort' = libWorkerPort
       /\ portOnMessage' = portOnMessage

\* C22: each UPDATED message received from the lib worker produces exactly
\* one UPDATED message to the main thread, in the order received, with a
\* buffer of 160 x 144 x 4 bytes; a message of the lib worker of another
\* type than UPDATED and GET_CONSTANTS_DONE, or of the main thread of
\* another type than CONNECT and GET_CONSTANTS, posts no message and does
\* not change the lib port.
C22_UpdatedRelayedOthersIgnored ==
    /\ []UpdatedRelayedInOrder
    /\ [][OtherTypesDoNothing]_vars

\* Two frames have been relayed and the handler has just been invoked for a
\* CRASHED message of the lib worker.
C22_Witness ==
    /\ Len(SelectSeq(workerToMain, IsUpdated)) = 2
    /\ lastOp = "libMessageHandler"
    /\ handled.message.type = WORKER_MESSAGE_TYPE.CRASHED

\* C23: the worker never forwards to the lib port while it is unset: every
\* GET_CONSTANTS request for which messageHandler runs line 193 comes after
\* a CONNECT that has assigned libWorkerPort, whatever the order in which
\* the main thread posts CONNECT and GET_CONSTANTS.
C23_PortSetBeforeForward ==
    \A n \in 1..mainHandled :
        IsType(mainSent[n], WORKER_MESSAGE_TYPE.GET_CONSTANTS) =>
            \E c \in 1..(n - 1) :
                IsType(mainSent[c], WORKER_MESSAGE_TYPE.CONNECT)

-----------------------------------------------------------------------------
(* The image conversion, checked under SpecImageData *)

\* C24: for a 160x144 RGB frame buffer getImageDataFromGraphicsFrameBuffer
\* returns an array of exactly 160*144*4 bytes in which, for every pixel
\* y*160+x with x in 0..159 and y in 0..143, bytes (y*160+x)*4 .. +2 are the
\* input's bytes (y*160+x)*3 .. +2 and byte (y*160+x)*4+3 is 255.
C24_RgbToRgba ==
    frameNumber > 0 =>
        /\ imageLength = 160 * 144 * 4
        /\ imageBytes = <<FrameBuffer(frameNumber)[imagePixel * 3],
                          FrameBuffer(frameNumber)[imagePixel * 3 + 1],
                          FrameBuffer(frameNumber)[imagePixel * 3 + 2],
                          255>>
        /\ getImageDataFromGraphicsFrameBuffer(FrameBuffer(frameNumber)) =
              [k \in 0..(160 * 144 * 4 - 1) |->
                  LET pixel == k \div 4
                      byte == k % 4
                  IN  IF byte = 3 THEN 255
                      ELSE FrameBuffer(frameNumber)[pixel * 3 + byte]]

\* The last pixel of a converted frame, with three different colour bytes.
C24_Witness ==
    /\ frameNumber = 3
    /\ imagePixel = 23039
    /\ imageBytes[1] # imageBytes[2]
    /\ imageBytes[2] # imageBytes[3]
    /\ imageBytes[4] = 255

-----------------------------------------------------------------------------
(* The size of wasm memory, checked under SpecMemoryMap *)

\* C25 (as claimed): WASMBOY_WASM_PAGES pages of 64 KiB cover the memory map:
\* WASMBOY_WASM_PAGES x 65536 >= WASMBOY_MEMORY_SIZE, which is the end of the
\* last region, every region starting where the previous one ends; so every
\* address of a region lies inside the pages.
C25_WasmPagesCoverMemoryMap ==
    /\ WASMBOY_WASM_PAGES * 65536 >= WASMBOY_MEMORY_SIZE
    /\ WASMBOY_MEMORY_SIZE =
          MemoryRegions[Len(MemoryRegions)].location
              + MemoryRegions[Len(MemoryRegions)].size
    /\ \A i \in 2..Len(MemoryRegions) :
          MemoryRegions[i].location =
              MemoryRegions[i - 1].location + MemoryRegions[i - 1].size
    /\ memoryAddress < WASMBOY_WASM_PAGES * 65536

====
